---- MODULE Spec2Model ----
(***************************************************************************)
(* mullvad-speed: a model of src/mullvad_speed.py.                         *)
(*                                                                         *)
(* main() parses argv, MullvadSpeedTest.test_servers() fetches the relay   *)
(* directory, submits one ping_server call per server to a                 *)
(* ThreadPoolExecutor(max_workers=10), collects the futures with           *)
(* as_completed, sorts the successful results by ping_ms and cuts the list *)
(* to max_results; display_results() prints it.                            *)
(*                                                                         *)
(* Times are integers in hundredths of a millisecond, so that a ping_ms    *)
(* rounded to 2 decimals is an integer.                                    *)
(***************************************************************************)
EXTENDS Integers, Sequences, FiniteSets, TLC

\* ------------------------------------------------------------- bounds

\* The longest relay directory the API returns in the full model.
MaxServers == 2

\* The longest relay directory in the worker-pool model (more than max_workers).
PoolServers == 11

\* ---------------------------------------------------- program constants

\* ThreadPoolExecutor(max_workers=10)
max_workers == 10

\* for _ in range(3)
SAMPLES == 3

\* max_results = 10 in main(), and the default of test_servers
DEFAULT_MAX_RESULTS == 10

\* ------------------------------------------------------------- values

\* A key the relay's JSON object does not have (dict.get gives None for it).
Missing == "<missing>"

\* What a future holds. Python's None:
NoneValue == [py |-> "None"]

\* the exception of a call that raised (future.result() raises it again):
RaisedValue == [py |-> "raised"]

\* server.get(key, default) for a key of the relay's metadata. Metadata values
\* are written as Python writes them: "True", "42", "None".
MetaGet(server, key, default) ==
    IF key \in DOMAIN server.meta THEN server.meta[key] ELSE default

\* bool(v) of a string or None.
BoolOf(v) == IF v = "None" \/ v = "" THEN "False" ELSE "True"

\* Fault: 'port_speed' is read from the key 'port_speed', which no relay has.
ResultDictWrongKey(server, ping) ==
    [py |-> "dict", hostname |-> server.hostname, ping_ms |-> ping,
     ipv4_addr |-> server.ipv4_addr_in,
     country |-> MetaGet(server, "country_name",
                         MetaGet(server, "country_code", "Unknown")),
     city |-> MetaGet(server, "city_name", MetaGet(server, "city_code", "Unknown")),
     provider |-> MetaGet(server, "provider", "Unknown"),
     owned |-> MetaGet(server, "owned", "False"),
     load |-> MetaGet(server, "load", "0"),
     port_speed |-> MetaGet(server, "port_speed", "0"),
     stboot |-> MetaGet(server, "stboot", "False"),
     ipv6 |-> BoolOf(MetaGet(server, "ipv6_addr_in", "None")),
     multihop_port |-> MetaGet(server, "multihop_port", "None"),
     socks_available |-> BoolOf(MetaGet(server, "socks_name", "None"))]

\* the dict ping_server returns for a server it could connect to.
ResultDict(server, ping) ==
    [py |-> "dict", hostname |-> server.hostname, ping_ms |-> ping,
     ipv4_addr |-> server.ipv4_addr_in,
     country |-> MetaGet(server, "country_name",
                         MetaGet(server, "country_code", "Unknown")),
     city |-> MetaGet(server, "city_name", MetaGet(server, "city_code", "Unknown")),
     provider |-> MetaGet(server, "provider", "Unknown"),
     owned |-> MetaGet(server, "owned", "False"),
     load |-> MetaGet(server, "load", "0"),
     port_speed |-> MetaGet(server, "network_port_speed", "0"),
     stboot |-> MetaGet(server, "stboot", "False"),
     ipv6 |-> BoolOf(MetaGet(server, "ipv6_addr_in", "None")),
     multihop_port |-> MetaGet(server, "multihop_port", "None"),
     socks_available |-> BoolOf(MetaGet(server, "socks_name", "None"))]

\* What one create_connection call does. When it does not succeed it raises
\* (timeout, refused, unreachable, resolution error) and leaves no socket open:
ConnError == [ok |-> FALSE, elapsed |-> 0]

\* when it succeeds it returns a connected socket, e after start_time.
Connected(e) == [ok |-> TRUE, elapsed |-> e]

\* The pairs <<start_time, time.time() after the connect>> a successful attempt
\* can read, in hundredths of a millisecond since the epoch. time.time() is the
\* wall clock: it is not monotonic, and in the second pair it was set back by
\* 10 ms while the attempt ran.
ClockReadings == { <<5000, 5121>>, <<5000, 4120>> }

\* (time.time() - start_time) * 1000, in hundredths of a millisecond.
Elapsed(start, end) == end - start

\* The elapsed times a successful attempt can record.
ElapsedSet == { Elapsed(p[1], p[2]) : p \in ClockReadings }

\* sys.argv[1:] as the user can give it; an argument is its sequence of characters.
ArgvSet == { <<>>, << <<"x">> >>, << <<"-", "1">> >>, << <<"0">> >>,
             << <<"1">> >>, << <<"2">> >> }

\* The shapes of a relay object in the API's JSON list.
RelayShapes ==
    { [type |-> "wireguard", active |-> "true",    ipv4_addr_in |-> "10.0.0.1"],
      [type |-> "wireguard", active |-> "true",    ipv4_addr_in |-> Missing],
      [type |-> "wireguard", active |-> "true",    ipv4_addr_in |-> ""],
      [type |-> "wireguard", active |-> Missing, ipv4_addr_in |-> "10.0.0.1"],
      [type |-> "openvpn",   active |-> "true",    ipv4_addr_in |-> "10.0.0.1"],
      [type |-> Missing,     active |-> "true",    ipv4_addr_in |-> "10.0.0.1"] }

\* The other keys of a relay object: all of them, some of them, hardly any.
FullMeta ==
    [country_name |-> "Sweden", country_code |-> "se", city_name |-> "Malmo",
     city_code |-> "mma", provider |-> "31173", owned |-> "True", load |-> "42",
     network_port_speed |-> "10", stboot |-> "True", ipv6_addr_in |-> "2a03::1",
     multihop_port |-> "3001", socks_name |-> "se-mma-wg-socks"]

SparseMeta ==
    [country_code |-> "de", city_code |-> "fra", owned |-> "False", load |-> "0"]

BareMeta == [load |-> "7"]

\* The metadata of the relay at position i of the JSON list.
Meta(i) == IF i = 1 THEN FullMeta ELSE IF i = 2 THEN SparseMeta ELSE BareMeta

\* A relay of the JSON list: shape sh, with the hostname and the metadata of
\* its position.
Relay(i, sh) ==
    [hostname |-> i, type |-> sh.type, active |-> sh.active,
     ipv4_addr_in |-> sh.ipv4_addr_in, meta |-> Meta(i)]

\* The JSON lists of n relays drawn from the shapes in S.
RelayLists(n, S) == { [i \in 1..n |-> Relay(i, f[i])] : f \in [1..n -> S] }

\* What requests.get(...) gives: it raises (network error), it answers with a
\* status raise_for_status() rejects, its body is no JSON, its JSON is no list
\* of objects, or it is a JSON list of relay objects.
FetchFailures == {"ConnectionError", "HTTPError", "JSONDecodeError", "TypeError"}

\* An answer of the API: the error of the request, or "" and the JSON list.
Failure(e) == [error |-> e, relays |-> <<>>]

Answer(relays) == [error |-> "", relays |-> relays]

Directories ==
    { Failure(e) : e \in FetchFailures }
    \cup { Answer(l) : l \in UNION { RelayLists(n, RelayShapes) : n \in 0..MaxServers } }

\* Directories of reachable-looking wireguard relays only, for the pool model.
PoolDirectories ==
    { Answer(l) : l \in UNION { RelayLists(n, {[type |-> "wireguard", active |-> "true",
                                   ipv4_addr_in |-> "10.0.0.1"]}) : n \in 0..PoolServers } }

\* -------------------------------------------------------------- state

VARIABLES
    directory,    \* environment: what the API answers
    net,          \* environment: "up" (an attempt may succeed or fail) or "down"
    finalizer,    \* runtime: "refcount" closes an unreferenced socket object at
                  \* once, "deferred" leaves it open until a later collection
    argv,         \* sys.argv[1:]
    pc,           \* where the main thread is
    max_results,  \* main's max_results
    servers,      \* test_servers' servers
    num_threads,  \* worker threads the executor has started
    futures,      \* future_to_server, in submission order
    results,      \* test_servers' results
    completed,    \* test_servers' completed
    ranked,       \* what test_servers returns
    shown,        \* what display_results printed
    exit_code     \* the process's exit code: <<>> while it runs, then <<code>>

vars == << directory, net, finalizer, argv, pc, max_results, servers,
           num_threads, futures, results, completed, ranked, shown, exit_code >>

env == << directory, net, finalizer, argv >>

\* ------------------------------------------------------- pure helpers

RECURSIVE SumSeq(_)
SumSeq(s) == IF s = <<>> THEN 0 ELSE Head(s) + SumSeq(Tail(s))

\* The value of a string of decimal digits.
DigitValue(ch) ==
    CASE ch = "0" -> 0 [] ch = "1" -> 1 [] ch = "2" -> 2 [] ch = "3" -> 3
      [] ch = "4" -> 4 [] ch = "5" -> 5 [] ch = "6" -> 6 [] ch = "7" -> 7
      [] ch = "8" -> 8 [] ch = "9" -> 9

Digits == {"0", "1", "2", "3", "4", "5", "6", "7", "8", "9"}

RECURSIVE DecimalValue(_)
DecimalValue(s) ==
    IF s = <<>> THEN 0
    ELSE 10 * DecimalValue(SubSeq(s, 1, Len(s) - 1)) + DigitValue(s[Len(s)])

\* int(s) for a string s of an optional sign and decimal digits: ok with the
\* integer, or not ok where int raises ValueError.
ParseInt(s) ==
    LET signed == s # <<>> /\ s[1] \in {"-", "+"}
        body   == IF signed THEN Tail(s) ELSE s
    IN  IF body = <<>> \/ \E i \in 1..Len(body) : body[i] \notin Digits
        THEN [ok |-> FALSE, value |-> 0]
        ELSE [ok |-> TRUE,
              value |-> IF signed /\ s[1] = "-" THEN 0 - DecimalValue(body)
                        ELSE DecimalValue(body)]

\* round(total / n, 2) in hundredths: the nearest integer, halves to even.
RoundDiv(total, n) ==
    LET q == total \div n
        r == total % n
    IN  IF 2 * r < n THEN q
        ELSE IF 2 * r > n THEN q + 1
        ELSE IF q % 2 = 0 THEN q ELSE q + 1

\* Fault: `if ip is None` in place of `if not ip`, so '' counts as an address.
TruthyNotNone(ip) == ip # Missing

\* Python's truth value of server.get('ipv4_addr_in'): None and '' are false.
Truthy(ip) == ip # Missing /\ ip # ""

\* s[:k], Python's slice: a negative k counts from the end.
Slice(s, k) ==
    LET n == IF k >= 0 THEN (IF k < Len(s) THEN k ELSE Len(s))
             ELSE (IF Len(s) + k > 0 THEN Len(s) + k ELSE 0)
    IN  SubSeq(s, 1, n)

\* Insert r after every element whose ping_ms is not greater: a stable insert.
RECURSIVE InsertByPing(_, _)
InsertByPing(s, r) ==
    IF s = <<>> THEN <<r>>
    ELSE IF Head(s).ping_ms <= r.ping_ms
         THEN <<Head(s)>> \o InsertByPing(Tail(s), r)
         ELSE <<r>> \o s

\* Fault: the results are cut without being sorted.
Unsorted(s) == s

\* sorted(s, key=lambda x: x['ping_ms']): ascending and stable.
RECURSIVE SortedByPing(_)
SortedByPing(s) ==
    IF s = <<>> THEN <<>>
    ELSE InsertByPing(SortedByPing(SubSeq(s, 1, Len(s) - 1)), s[Len(s)])

\* ------------------------------------------------------------ main()

\* main(), lines 178-185: the count to show, from sys.argv[1] when it is there
\* and int() accepts it.
MaxResultsOf(args, default) ==
    IF Len(args) > 0
    THEN LET p == ParseInt(args[1]) IN IF p.ok THEN p.value ELSE default
    ELSE default

main ==
    /\ pc = "main"
    /\ max_results' = MaxResultsOf(argv, max_results)
    /\ pc' = "fetch"
    /\ UNCHANGED << env, servers, num_threads, futures, results, completed,
                    ranked, shown, exit_code >>

\* --------------------------------------------------- fetch_servers()

\* Fault: s.get('type') in place of s['type'], so a relay without the key is
\* filtered out and the fetch goes on.
FetchRaisesTransportOnly(dir) == dir.error # ""

\* Whether the try block of fetch_servers raises: requests.get, raise_for_status
\* or response.json() raised, or s['type'] met a relay without the key.
FetchRaises(dir) ==
    \/ dir.error # ""
    \/ \E i \in 1..Len(dir.relays) : dir.relays[i].type = Missing

\* s['type'] == 'wireguard' and s.get('active', False)
IsActiveWireguard(s) == s.type = "wireguard" /\ s.active = "true"

ActiveWireguard(relays) == SelectSeq(relays, IsActiveWireguard)

\* servers = self.fetch_servers(): the filtered list, or sys.exit(1).
fetch_servers ==
    /\ pc = "fetch"
    /\ IF FetchRaises(directory)
       THEN /\ pc' = "exited"
            /\ exit_code' = <<1>>
            /\ shown' = "error fetching servers"
            /\ UNCHANGED servers
       ELSE /\ servers' = ActiveWireguard(directory.relays)
            /\ pc' = IF servers' = <<>> THEN "collect" ELSE "submit"
            /\ UNCHANGED << exit_code, shown >>
    /\ UNCHANGED << env, max_results, num_threads, futures, results, completed,
                    ranked >>

\* ------------------------------------------- the executor's workers

\* A future as executor.submit creates it, with the locals of its ping_server call.
NewFuture ==
    [state |-> "PENDING", calls |-> 0, result |-> NoneValue, pings |-> <<>>,
     attempts |-> 0, sockets |-> 0, yielded |-> 0]

\* Fault: a thread per submitted call, whatever max_workers is.
SpawnsThreadAlways(n) == TRUE

\* ThreadPoolExecutor._adjust_thread_count: a submit starts a worker thread
\* while fewer than max_workers exist.
SpawnsThread(n) == n < max_workers

\* executor.submit(self.ping_server, server) for the next server of the list.
submit ==
    /\ pc = "submit"
    /\ Len(futures) < Len(servers)
    /\ futures' = Append(futures, NewFuture)
    /\ num_threads' = IF SpawnsThread(num_threads) THEN num_threads + 1
                      ELSE num_threads
    /\ pc' = IF Len(futures') = Len(servers) THEN "collect" ELSE "submit"
    /\ UNCHANGED << env, max_results, servers, results, completed, ranked,
                    shown, exit_code >>

\* The futures whose ping_server call has started and not returned.
InFlight == { i \in 1..Len(futures) : futures[i].state = "RUNNING" }

\* A worker thread that is not running a call takes the oldest queued work
\* item and calls ping_server.
worker(i) ==
    /\ futures[i].state = "PENDING"
    /\ \A j \in 1..(i - 1) : futures[j].state # "PENDING"
    /\ Cardinality(InFlight) < num_threads
    /\ futures' = [futures EXCEPT ![i].state = "RUNNING", ![i].calls = @ + 1]
    /\ UNCHANGED << env, pc, max_results, servers, num_threads, results,
                    completed, ranked, shown, exit_code >>

\* ------------------------------------------------------ ping_server()

\* Python's truth value of a future's result (`if result:`): a dict with keys
\* is true, None is false.
IsTruthyResult(v) == v.py = "dict"

\* What socket.create_connection((ip, 443), timeout=2) can do.
ConnectOutcomes ==
    IF net = "down" THEN {ConnError}
    ELSE {ConnError} \cup { Connected(e) : e \in ElapsedSet }

\* The sockets of this call still open after one more create_connection
\* returned a socket that no name is bound to and no close() is called on.
SocketsAfterConnect(n) == IF finalizer = "refcount" THEN n ELSE n + 1

\* avg_ping = sum(pings) / len(pings); round(avg_ping, 2)
PingMs(pings) == RoundDiv(SumSeq(pings), Len(pings))

\* Fault: no except clause, the exception leaves ping_server.
OnExceptionReraise == RaisedValue

\* except Exception: return None
OnException == NoneValue

\* The call returns v: the worker sets the future's result.
Returned(f, v) == [f EXCEPT !.state = "FINISHED", !.result = v]

\* Fault: a failed attempt ends the loop and the samples taken so far are averaged.
AttemptFailedAveraging(f, server) ==
    LET g == [f EXCEPT !.attempts = @ + 1]
    IN  IF g.pings = <<>> THEN Returned(g, NoneValue)
        ELSE Returned(g, ResultDict(server, PingMs(g.pings)))

\* Fault: the try statement is inside the loop, so the loop goes on after a
\* failed attempt and the samples of the attempts that succeeded are averaged.
AttemptFailedContinue(f, server) ==
    LET g == [f EXCEPT !.attempts = @ + 1]
    IN  IF g.attempts < SAMPLES THEN g
        ELSE IF g.pings = <<>> THEN Returned(g, NoneValue)
        ELSE Returned(g, ResultDict(server, PingMs(g.pings)))

\* One more create_connection raised: the except clause ends the call.
AttemptFailed(f, server) ==
    Returned([f EXCEPT !.attempts = @ + 1], OnException)

\* One more create_connection succeeded after e: the sample is appended, and
\* after the last sample the call returns the dict.
AttemptSucceeded(f, server, e) ==
    LET g == [f EXCEPT !.attempts = @ + 1,
                       !.pings = Append(@, e),
                       !.sockets = SocketsAfterConnect(@)]
    IN  IF Len(g.pings) = SAMPLES
        THEN Returned(g, ResultDict(server, PingMs(g.pings)))
        ELSE g

\* Fault: the worker thread itself appends the dict it computed to the shared
\* results list, besides returning it.
ping_server_appending(i) ==
    /\ futures[i].state = "RUNNING"
    /\ LET f == futures[i]
           server == servers[i]
       IN  IF f.attempts = 0 /\ ~Truthy(server.ipv4_addr_in)
           THEN futures' = [futures EXCEPT ![i] = Returned(f, NoneValue)]
           ELSE \E r \in ConnectOutcomes :
                  futures' = [futures EXCEPT ![i] =
                                IF r.ok
                                THEN AttemptSucceeded(f, server, r.elapsed)
                                ELSE AttemptFailed(f, server)]
    /\ results' = IF IsTruthyResult(futures'[i].result)
                  THEN Append(results, futures'[i].result)
                  ELSE results
    /\ UNCHANGED << env, pc, max_results, servers, num_threads,
                    completed, ranked, shown, exit_code >>

\* ping_server(server) up to its next create_connection call returning or
\* raising; the first step also makes the address check of lines 44-46.
ping_server(i) ==
    /\ futures[i].state = "RUNNING"
    /\ LET f == futures[i]
           server == servers[i]
       IN  IF f.attempts = 0 /\ ~Truthy(server.ipv4_addr_in)
           THEN futures' = [futures EXCEPT ![i] = Returned(f, NoneValue)]
           ELSE \E r \in ConnectOutcomes :
                  futures' = [futures EXCEPT ![i] =
                                IF r.ok
                                THEN AttemptSucceeded(f, server, r.elapsed)
                                ELSE AttemptFailed(f, server)]
    /\ UNCHANGED << env, pc, max_results, servers, num_threads, results,
                    completed, ranked, shown, exit_code >>

\* ----------------------------------------------------- test_servers()

\* Fault: the futures are collected only once all of them are done.
YieldableAfterAll(f) ==
    /\ f.state = "FINISHED" /\ f.yielded = 0
    /\ \A i \in 1..Len(futures) : futures[i].state = "FINISHED"

\* Fault: a done future is yielded a second time.
YieldableTwice(f) == f.state = "FINISHED" /\ f.yielded <= 1

\* as_completed yields a future that is done and was not yielded before.
Yieldable(f) == f.state = "FINISHED" /\ f.yielded = 0

\* Fault: completed is counted inside `if result:`.
CompletedAfterIfResult(c, result) == IF IsTruthyResult(result) THEN c + 1 ELSE c

\* completed += 1, before the future's result is looked at.
CompletedAfter(c, result) == c + 1

\* One pass of the body of `for future in as_completed(future_to_server)`.
collect(i) ==
    /\ pc = "collect"
    /\ Yieldable(futures[i])
    /\ futures' = [futures EXCEPT ![i].yielded = @ + 1]
    /\ completed' = CompletedAfter(completed, futures[i].result)
    /\ IF futures[i].result = RaisedValue
       THEN /\ pc' = "exited"
            /\ exit_code' = <<1>>
            /\ UNCHANGED results
       ELSE /\ results' = IF IsTruthyResult(futures[i].result)
                          THEN Append(results, futures[i].result)
                          ELSE results
            /\ UNCHANGED << pc, exit_code >>
    /\ UNCHANGED << env, max_results, servers, num_threads, ranked, shown >>

\* as_completed is exhausted: every future was yielded.
\* Fault: the loop over as_completed is left after the first future it yields.
LoopDoneFirstCompleted ==
    futures = <<>> \/ \E i \in 1..Len(futures) : futures[i].yielded > 0

LoopDone == \A i \in 1..Len(futures) : futures[i].yielded > 0

\* sorted(results, key=lambda x: x['ping_ms'])[:max_results]
Ranked(rs, k) == Slice(SortedByPing(rs), k)

\* The for loop and the with block end; test_servers returns the ranked list.
test_servers_return ==
    /\ pc = "collect"
    /\ LoopDone
    /\ ranked' = Ranked(results, max_results)
    /\ pc' = "display"
    /\ UNCHANGED << env, max_results, servers, num_threads, futures, results,
                    completed, shown, exit_code >>

\* -------------------------------------------------- display_results()

\* Fault: no check for the empty list.
NeverNoResults(rs) == FALSE

\* if not results:
NoResults(rs) == rs = <<>>

\* display_results(results), then main returns. results[0] of an empty list
\* raises IndexError.
display_results ==
    /\ pc = "display"
    /\ pc' = "exited"
    /\ IF NoResults(ranked)
       THEN shown' = "no valid test results found" /\ exit_code' = <<0>>
       ELSE IF Len(ranked) = 0
            THEN shown' = "IndexError" /\ exit_code' = <<1>>
            ELSE shown' = "recommended server" /\ exit_code' = <<0>>
    /\ UNCHANGED << env, max_results, servers, num_threads, futures, results,
                    completed, ranked >>

\* ------------------------------------------------------ specification

TypeInit ==
    /\ pc = "main"
    /\ max_results = DEFAULT_MAX_RESULTS
    /\ servers = <<>>
    /\ num_threads = 0
    /\ futures = <<>>
    /\ results = <<>>
    /\ completed = 0
    /\ ranked = <<>>
    /\ shown = ""
    /\ exit_code = <<>>

Init ==
    /\ directory \in Directories
    /\ net \in {"up", "down"}
    /\ finalizer \in {"refcount", "deferred"}
    /\ argv \in ArgvSet
    /\ TypeInit

Next ==
    \/ main
    \/ fetch_servers
    \/ submit
    \/ \E i \in 1..Len(futures) : worker(i)
    \/ \E i \in 1..Len(futures) : ping_server(i)
    \/ \E i \in 1..Len(futures) : collect(i)
    \/ test_servers_return
    \/ display_results

Spec == Init /\ [][Next]_vars

\* The worker-pool model: more servers than workers, on a network where no
\* connection attempt succeeds.
InitPool ==
    /\ directory \in PoolDirectories
    /\ net = "down"
    /\ finalizer = "refcount"
    /\ argv = <<>>
    /\ TypeInit

SpecPool == InitPool /\ [][Next]_vars

\* Fair scheduling: the operating system runs every thread that can take a
\* step, and every create_connection returns or raises within its timeout, so
\* the run does not stop while a step is possible.
\* The runs checked for it are those without a command-line argument, on
\* which scheduling does not depend.
InitFair ==
    /\ directory \in Directories
    /\ net \in {"up", "down"}
    /\ finalizer \in {"refcount", "deferred"}
    /\ argv = <<>>
    /\ TypeInit

SpecFair == InitFair /\ [][Next]_vars /\ WF_vars(Next)

\* ------------------------------------------------------------ properties

\* test_servers has returned its ranked list.
TestServersReturned ==
    \/ pc = "display"
    \/ shown \in {"no valid test results found", "recommended server", "IndexError"}

Futures == 1..Len(futures)

\* The attempts of call i that raised.
FailedAttempts(i) == futures[i].attempts - Len(futures[i].pings)

\* The futures holding a dict, and their dicts in the order of the server list.
Succeeded == { i \in Futures : futures[i].result.py = "dict" }

RECURSIVE DictsInInputOrder(_)
DictsInInputOrder(n) ==
    IF n = 0 THEN <<>>
    ELSE IF n \in Succeeded
         THEN Append(DictsInInputOrder(n - 1), futures[n].result)
         ELSE DictsInInputOrder(n - 1)

Range(s) == { s[i] : i \in 1..Len(s) }

Min(a, b) == IF a < b THEN a ELSE b

SocketsOpen(S) == LET RECURSIVE Sum(_)
                      Sum(T) == IF T = {} THEN 0
                                ELSE LET i == CHOOSE x \in T : TRUE
                                     IN  futures[i].sockets + Sum(T \ {i})
                  IN  Sum(S)

\* C1: when test_servers returns, every server of the list was submitted and
\* probed by exactly one ping_server call, every future was yielded exactly once,
\* completed is the number of servers; with no server, results and the ranked
\* list are empty and the run ends with exit code 0.
C1_OneOutcomePerCandidate ==
    /\ \A i \in Futures : futures[i].calls <= 1 /\ futures[i].yielded <= 1
    /\ completed = Cardinality({ i \in Futures : futures[i].yielded > 0 })
    /\ TestServersReturned =>
         /\ Len(futures) = Len(servers)
         /\ completed = Len(servers)
         /\ \A i \in Futures :
              /\ futures[i].calls = 1
              /\ futures[i].state = "FINISHED"
              /\ futures[i].yielded = 1
         /\ servers = <<>> => results = <<>> /\ ranked = <<>>
         /\ (servers = <<>> /\ pc = "exited") => exit_code = <<0>>

C1_Witness ==
    /\ TestServersReturned
    /\ Len(servers) >= 2
    /\ \E i \in Futures : futures[i].result = NoneValue
    /\ \E i \in Futures : futures[i].result.py = "dict"

\* C2: never more than max_workers = 10 ping_server calls are in flight and
\* never more than 10 worker threads exist; a queued call starts only while
\* fewer than 10 are in flight.
C2_AtMostTenInFlight ==
    /\ Cardinality(InFlight) <= max_workers
    /\ num_threads <= max_workers

C2_Witness ==
    /\ Cardinality(InFlight) = max_workers
    /\ \E i \in Futures : futures[i].state = "PENDING"

\* C3: a call one of whose connection attempts raised returns None, whatever
\* the earlier attempts did; a future holds a dict only after SAMPLES = 3
\* attempts that all succeeded.
C3_AllOrNothing ==
    \A i \in Futures :
        /\ futures[i].result # RaisedValue
        /\ (futures[i].state = "FINISHED" /\ FailedAttempts(i) > 0)
              => futures[i].result = NoneValue
        /\ futures[i].result.py = "dict"
              => /\ futures[i].state = "FINISHED"
                 /\ futures[i].attempts = SAMPLES
                 /\ Len(futures[i].pings) = SAMPLES

C3_Witness ==
    \E i \in Futures :
        /\ futures[i].state = "FINISHED"
        /\ Len(futures[i].pings) = SAMPLES - 1
        /\ futures[i].attempts = SAMPLES
        /\ futures[i].result = NoneValue

\* C4: no socket a call opened is open once the attempt was timed: a call that
\* returned has none open, the open sockets are never more than the calls in
\* flight, and none is open when test_servers has returned.
C4_SocketsClosed ==
    /\ \A i \in Futures : futures[i].state = "FINISHED" => futures[i].sockets = 0
    /\ SocketsOpen(Futures) <= Cardinality(InFlight)
    /\ TestServersReturned => SocketsOpen(Futures) = 0

\* C5: a connection failure of a server never leaves ping_server as an
\* exception and never ends the run: no future holds an exception, exit code 1
\* comes from fetch_servers alone, and when test_servers returns every server
\* was probed and collected and the ranked list is drawn from the dicts of the
\* servers that succeeded.
C5_FailuresSwallowed ==
    /\ \A i \in Futures : futures[i].result # RaisedValue
    /\ exit_code = <<1>> => shown = "error fetching servers" /\ futures = <<>>
    /\ TestServersReturned =>
         /\ \A i \in 1..Len(servers) :
              /\ i \in Futures
              /\ futures[i].state = "FINISHED"
              /\ futures[i].yielded > 0
         /\ Range(results) = { futures[i].result : i \in Succeeded }
         /\ Range(ranked) \subseteq Range(results)

C5_Witness ==
    /\ TestServersReturned
    /\ \E i \in Futures : FailedAttempts(i) > 0
    /\ ranked # <<>>

\* C6: for a server whose ipv4_addr_in is missing or empty, ping_server never
\* calls create_connection, opens no socket, and returns None.
C6_NoAddressNoAttempt ==
    \A i \in Futures :
        (servers[i].ipv4_addr_in = Missing \/ servers[i].ipv4_addr_in = "")
           => /\ futures[i].attempts = 0
              /\ futures[i].pings = <<>>
              /\ futures[i].sockets = 0
              /\ futures[i].state = "FINISHED" => futures[i].result = NoneValue

C6_Witness ==
    /\ \E i \in Futures : /\ servers[i].ipv4_addr_in = Missing
                          /\ futures[i].state = "FINISHED"
    /\ \E i \in Futures : /\ servers[i].ipv4_addr_in = ""
                          /\ futures[i].state = "FINISHED"

\* C7: for max_results K >= 0 and M collected dicts, the list test_servers
\* returns holds min(K, M) of the collected dicts, each once, ascending by
\* ping_ms, and no dict left out has a lower ping_ms than one that is in.
C7_RankedLowestK ==
    (TestServersReturned /\ max_results >= 0) =>
        /\ Len(results) = Cardinality(Succeeded)
        /\ Len(ranked) = Min(max_results, Len(results))
        /\ \A a \in 1..Len(ranked) : ranked[a].py = "dict" /\ ranked[a] \in Range(results)
        /\ \A a, b \in 1..Len(ranked) :
              /\ a < b => ranked[a].ping_ms <= ranked[b].ping_ms
              /\ a # b => ranked[a].hostname # ranked[b].hostname
        /\ \A r \in Range(results) \ Range(ranked) :
              \A a \in 1..Len(ranked) : ranked[a].ping_ms <= r.ping_ms

C7_Witness ==
    /\ TestServersReturned
    /\ max_results = 1
    /\ Len(results) = 2
    /\ results[1].ping_ms > results[2].ping_ms
    /\ Len(ranked) = 1

\* C8: the ranked list is a function of the servers' outcomes alone: it is the
\* dicts of the servers that succeeded, taken in the order of the server list,
\* sorted stably by ping_ms and cut to max_results, in whatever order the
\* probes completed.
C8_RankedDeterministic ==
    TestServersReturned => ranked = Ranked(DictsInInputOrder(Len(futures)), max_results)

\* The fetch fails: the request raises, the status is rejected, or the payload
\* is malformed (no JSON, no list of objects, a relay without 'type').
DirectoryFetchFails ==
    \/ directory.error \in FetchFailures
    \/ \E i \in 1..Len(directory.relays) : directory.relays[i].type = Missing

C10_NoResultsExitZero ==
    /\ shown # "IndexError"
    /\ (pc = "exited" /\ ~DirectoryFetchFails /\ Succeeded = {})
          => /\ shown = "no valid test results found"
             /\ exit_code = <<0>>
             /\ ranked = <<>>

C10_Witness ==
    /\ pc = "exited"
    /\ exit_code = <<0>>
    /\ Succeeded = {}
    /\ \E i \in Futures : futures[i].attempts > 0

\* ping_ms of future i is the integer nearest to the mean of its 3 samples.
IsRoundedMeanOfSamples(i) ==
    LET total == SumSeq(futures[i].pings)
        d     == SAMPLES * futures[i].result.ping_ms - total
    IN  /\ Len(futures[i].pings) = SAMPLES
        /\ futures[i].attempts = SAMPLES
        /\ 2 * d <= SAMPLES /\ 0 - 2 * d <= SAMPLES

\* C11: the ping_ms of a server whose 3 attempts succeeded is the mean of the
\* 3 elapsed times recorded for that server, rounded to 2 decimals, and it is
\* not negative, whatever time.time() read around the attempts.
C11_RoundedMeanNotNegative ==
    \A i \in Succeeded :
        /\ IsRoundedMeanOfSamples(i)
        /\ futures[i].result.ping_ms >= 0

\* C12: a call makes at most SAMPLES = 3 connection attempts, one after the
\* other; the first attempt that raises is its last, so a call whose j-th
\* attempt is the first to fail made exactly j attempts and returned None, and
\* a call that returned a dict made exactly 3; on a network where no attempt
\* succeeds no server gets a dict.
C12_AtMostThreeAttempts ==
    \A i \in Futures :
        /\ futures[i].calls <= 1
        /\ futures[i].attempts <= SAMPLES
        /\ FailedAttempts(i) \in {0, 1}
        /\ FailedAttempts(i) = 1
              => /\ futures[i].state = "FINISHED"
                 /\ futures[i].result = NoneValue
                 /\ futures[i].attempts = Len(futures[i].pings) + 1
        /\ (futures[i].state = "RUNNING" /\ futures[i].attempts > 0)
              => /\ FailedAttempts(i) = 0
                 /\ futures[i].attempts < SAMPLES
        /\ (futures[i].state = "FINISHED" /\ FailedAttempts(i) = 0
               /\ futures[i].attempts > 0)
              => futures[i].attempts = SAMPLES /\ futures[i].result.py = "dict"
        /\ net = "down" => futures[i].result.py # "dict" /\ futures[i].attempts <= 1

C12_Witness ==
    /\ \E i \in Futures : /\ futures[i].state = "FINISHED"
                          /\ futures[i].attempts = 2
                          /\ Len(futures[i].pings) = 1
    /\ \E i \in Futures : /\ futures[i].state = "FINISHED"
                          /\ futures[i].attempts = SAMPLES
                          /\ Len(futures[i].pings) = SAMPLES

\* While call i is in flight, nothing that another future j is ready for waits
\* for it: the oldest queued call starts when a worker is free, a running call
\* takes its next step, a done future is collected by the as_completed loop.
NotBlockedBy(i) ==
    \A j \in Futures \ {i} :
        /\ ( /\ futures[j].state = "PENDING"
             /\ \A k \in 1..(j - 1) : futures[k].state # "PENDING"
             /\ Cardinality(InFlight) < Min(Len(futures), max_workers) )
              => ENABLED worker(j)
        /\ futures[j].state = "RUNNING" => ENABLED ping_server(j)
        /\ ( /\ pc = "collect"
             /\ futures[j].state = "FINISHED"
             /\ futures[j].yielded = 0 )
              => ENABLED collect(j)

\* C13: under fair scheduling every run ends (test_servers returns and main
\* exits, or fetch_servers exits), and a call in flight never blocks the other
\* servers' admission, probing and collection.
C13_TerminatesUnblocked ==
    /\ <>(pc = "exited")
    /\ [](\A i \in Futures : futures[i].state = "RUNNING" => NotBlockedBy(i))

C13_Witness ==
    /\ pc = "collect"
    /\ \E i, j \in Futures : /\ futures[i].state = "RUNNING"
                             /\ futures[i].attempts = 0
                             /\ futures[j].yielded = 1
                             /\ futures[j].result.py = "dict"

\* The futures the as_completed loop has collected, and those that are done.
Collected == { i \in Futures : futures[i].yielded > 0 }

Done == { i \in Futures : futures[i].state = "FINISHED" }

\* C14: completed starts at 0, grows by exactly 1 in each step that collects a
\* future (whether it holds a dict or None) and changes in no other step, is
\* never more than the number of calls that have returned, and is the number
\* of servers when the loop has ended.
C14_CompletedCountsCollected ==
    /\ completed = 0
    /\ [](/\ completed = Cardinality(Collected)
          /\ completed <= Cardinality(Done)
          /\ TestServersReturned => completed = Len(servers))
    /\ [][/\ completed' >= completed
          /\ completed' - completed = Cardinality(Collected') - Cardinality(Collected)
          /\ completed' - completed \in {0, 1}]_vars

C14_Witness ==
    /\ pc = "collect"
    /\ completed = 2
    /\ Len(results) = 1
    /\ \E i \in Collected : futures[i].result = NoneValue

\* The step leaves the call of every future as it was: no worker thread took it.
NoWorkerStep ==
    /\ Len(futures') = Len(futures)
    /\ \A i \in Futures :
          /\ futures'[i].state = futures[i].state
          /\ futures'[i].calls = futures[i].calls
          /\ futures'[i].attempts = futures[i].attempts
          /\ futures'[i].pings = futures[i].pings
          /\ futures'[i].result = futures[i].result

\* C15: results and completed change only in a pass of the as_completed loop
\* of the main thread, never in a step of a worker thread; no append or
\* increment is lost or doubled: results holds the dict of every collected
\* future that succeeded, once, and when the loop has ended it holds exactly
\* one entry per server whose probe succeeded.
C15_SingleWriter ==
    /\ [][(results' # results \/ completed' # completed)
             => /\ pc = "collect"
                /\ NoWorkerStep
                /\ \E i \in Futures : futures'[i].yielded = futures[i].yielded + 1]_vars
    /\ [](/\ Len(results) = Cardinality(Collected \cap Succeeded)
          /\ Range(results) = { futures[i].result : i \in Collected \cap Succeeded }
          /\ completed = Cardinality(Collected)
          /\ TestServersReturned => Len(results) = Cardinality(Succeeded))

C15_Witness ==
    /\ TestServersReturned
    /\ Len(results) = 2
    /\ completed = 2

\* The metadata keys of a relay that ping_server copies, and the key of the
\* result dict each is copied to.
PassedThrough ==
    { <<"owned", "owned">>, <<"load", "load">>, <<"provider", "provider">>,
      <<"network_port_speed", "port_speed">>, <<"multihop_port", "multihop_port">>,
      <<"stboot", "stboot">>, <<"country_name", "country">>, <<"city_name", "city">> }

\* The relays of the directory that fetch_servers keeps, as the API gave them.
RECURSIVE KeptRelays(_)
KeptRelays(l) ==
    IF l = <<>> THEN <<>>
    ELSE IF Head(l).type = "wireguard" /\ Head(l).active = "true"
         THEN <<Head(l)>> \o KeptRelays(Tail(l))
         ELSE KeptRelays(Tail(l))

\* C16: the server records are never changed once fetched, whatever
\* ping_server does with them, and every metadata field a server carries
\* (owned, load, provider, network_port_speed, multihop_port, stboot, country
\* and city names) is in its result dict with the value the server carries.
C16_MetadataPassedThrough ==
    /\ servers # <<>> => servers = KeptRelays(directory.relays)
    /\ \A i \in Succeeded :
          /\ futures[i].result.hostname = servers[i].hostname
          /\ \A k \in PassedThrough :
                k[1] \in DOMAIN servers[i].meta
                   => futures[i].result[k[2]] = servers[i].meta[k[1]]

C16_Witness ==
    /\ \E i \in Succeeded : DOMAIN servers[i].meta = DOMAIN FullMeta
    /\ \E i \in Succeeded : DOMAIN servers[i].meta = DOMAIN SparseMeta
    /\ pc = "exited"

\* The largest number of entries a run asked for K results may rank.
AtMost(k) == IF k > 0 THEN k ELSE 0

\* C17: the results are sorted and cut only after the whole batch is done. Once
\* test_servers has returned, every one of the N probes has finished and has
\* been collected exactly once, none is running or waiting, and from then on
\* neither the futures, the results, the count nor the ranked list change.
C17_RankedAfterWholeBatch ==
    /\ [](TestServersReturned
            => /\ Len(futures) = Len(servers)
               /\ InFlight = {}
               /\ \A i \in Futures : /\ futures[i].state = "FINISHED"
                                     /\ futures[i].yielded = 1
               /\ completed = Len(servers))
    /\ [][TestServersReturned
            => /\ futures' = futures
               /\ results' = results
               /\ completed' = completed
               /\ ranked' = ranked]_vars

C17_Witness ==
    /\ pc = "display"
    /\ Len(servers) = 2
    /\ Len(results) = 1
    /\ Len(ranked) = 1

\* C18: whatever integer the command line gives as K, zero and negative ones
\* included, test_servers returns no more than max(K, 0) entries.
C18_AtMostKOrZero ==
    TestServersReturned => Len(ranked) <= AtMost(max_results)

====
